---- MODULE Spec2Model ----
(***************************************************************************)
(* Model of extract_logs.py: a byte-offset index over a date-prefixed log  *)
(* file (build_index), its reload (load_index), and the extraction of one  *)
(* date's lines through the index or through a full scan (extract_logs),   *)
(* driven by the command line (__main__).                                  *)
(*                                                                         *)
(* Files are sequences of characters; a character is a one-element string, *)
(* except EAcute, which stands for a character that UTF-8 encodes in two   *)
(* bytes.  Positions returned by tell() and taken by seek() are byte       *)
(* positions.  A file on disk is a record [exists, data].                  *)
(***************************************************************************)
EXTENDS Integers, Sequences, FiniteSets, TLC

\* ------------------------------------------------------------------------
\* Bounds of the model
\* ------------------------------------------------------------------------
MaxLines == 3

MaxStaleLines == 2

MaxMods == 1

\* ------------------------------------------------------------------------
\* Program constants
\* ------------------------------------------------------------------------
PrefixLen == 10

NL == "\n"

SP == " "

EAcute == "U+00E9"

Whitespace == {" ", "\n", "\t", "\r"}

Digits == <<"0","1","2","3","4","5","6","7","8","9">>

NoFile == [exists |-> FALSE, data |-> <<>>]

File(data) == [exists |-> TRUE, data |-> data]

\* ------------------------------------------------------------------------
\* Text helpers
\* ------------------------------------------------------------------------
Min(a, b) == IF a <= b THEN a ELSE b

\* s[:n]
Take(s, n) == SubSeq(s, 1, Min(n, Len(s)))

\* s[n:] with n counted from 0
Drop(s, n) == SubSeq(s, n + 1, Len(s))

\* line[:10]
Prefix(line) == Take(line, PrefixLen)

\* line.startswith(date)
StartsWith(line, date) ==
    /\ Len(date) <= Len(line)
    /\ SubSeq(line, 1, Len(date)) = date

\* number of bytes of one character in UTF-8
Width(c) == IF c = EAcute THEN 2 ELSE 1

RECURSIVE ByteLen(_)
ByteLen(s) == IF s = <<>> THEN 0 ELSE Width(Head(s)) + ByteLen(Tail(s))

RECURSIVE Concat(_)
Concat(ss) == IF ss = <<>> THEN <<>> ELSE Head(ss) \o Concat(Tail(ss))

\* index (1-based) of the first newline of s, or 0
RECURSIVE FindNL(_, _)
FindNL(s, i) ==
    IF i > Len(s) THEN 0
    ELSE IF s[i] = NL THEN i
    ELSE FindNL(s, i + 1)

\* f.readline(): the text up to and including the next newline, or the rest
ReadLine(s) ==
    LET k == FindNL(s, 1)
    IN  IF k = 0 THEN s ELSE SubSeq(s, 1, k)

\* the lines a text file yields, each with its newline
RECURSIVE Lines(_)
Lines(s) ==
    IF s = <<>> THEN <<>>
    ELSE LET line == ReadLine(s)
         IN  <<line>> \o Lines(Drop(s, Len(line)))

\* str(n) for n >= 0
RECURSIVE Dec(_)
Dec(n) ==
    IF n < 10 THEN <<Digits[n + 1]>>
    ELSE Dec(n \div 10) \o <<Digits[(n % 10) + 1]>>

DigitVal(c) == CHOOSE d \in 0..9 : Digits[d + 1] = c

IsDigit(c) == \E d \in 0..9 : Digits[d + 1] = c

RECURSIVE DigitsVal(_, _)
DigitsVal(s, acc) ==
    IF s = <<>> THEN acc
    ELSE DigitsVal(Tail(s), acc * 10 + DigitVal(Head(s)))

\* int(token): an optional sign and decimal digits, or ValueError
ParseInt(tok) ==
    LET signed == tok # <<>> /\ Head(tok) \in {"+", "-"}
        body   == IF signed THEN Tail(tok) ELSE tok
        ok     == body # <<>> /\ \A i \in 1..Len(body) : IsDigit(body[i])
    IN  IF ~ok THEN [ok |-> FALSE, val |-> 0]
        ELSE [ok |-> TRUE,
              val |-> IF signed /\ Head(tok) = "-"
                      THEN 0 - DigitsVal(body, 0) ELSE DigitsVal(body, 0)]

\* str.strip()
RECURSIVE LStrip(_)
LStrip(s) ==
    IF s # <<>> /\ Head(s) \in Whitespace THEN LStrip(Tail(s)) ELSE s

RECURSIVE RStrip(_)
RStrip(s) ==
    IF s # <<>> /\ s[Len(s)] \in Whitespace
    THEN RStrip(SubSeq(s, 1, Len(s) - 1)) ELSE s

Strip(s) == RStrip(LStrip(s))

\* str.split(): the maximal runs of non-whitespace characters
RECURSIVE SplitLoop(_, _, _)
SplitLoop(s, cur, toks) ==
    IF s = <<>> THEN (IF cur = <<>> THEN toks ELSE Append(toks, cur))
    ELSE IF Head(s) \in Whitespace
         THEN SplitLoop(Tail(s), <<>>,
                        IF cur = <<>> THEN toks ELSE Append(toks, cur))
         ELSE SplitLoop(Tail(s), Append(cur, Head(s)), toks)

Split(s) == SplitLoop(s, <<>>, <<>>)

\* ------------------------------------------------------------------------
\* The index: a dict kept as the sequence of its items <<date, offset>>
\* in insertion order
\* ------------------------------------------------------------------------
HasKey(index, date) == \E i \in 1..Len(index) : index[i][1] = date

Lookup(index, date) ==
    index[CHOOSE i \in 1..Len(index) : index[i][1] = date][2]

\* index[date] = offset
DictSet(index, date, offset) ==
    IF HasKey(index, date)
    THEN [i \in 1..Len(index) |->
            IF index[i][1] = date THEN <<date, offset>> ELSE index[i]]
    ELSE Append(index, <<date, offset>>)

\* ------------------------------------------------------------------------
\* build_index
\* ------------------------------------------------------------------------
\* f.tell() after a readline() that started at byte pos
TellChars(pos, line) == pos + Len(line)

Tell(pos, line) == pos + ByteLen(line)

\* if date not in index: index[date] = pos, with the last occurrence kept
IndexStepOverwrite(index, date, pos) == DictSet(index, date, pos)

\* if date not in index: index[date] = pos
IndexStep(index, date, pos) ==
    IF HasKey(index, date) THEN index ELSE Append(index, <<date, pos>>)

\* the while loop of build_index over the unread text
RECURSIVE BuildLoop(_, _, _)
BuildLoop(rest, pos, index) ==
    LET line == ReadLine(rest)
    IN  IF line = <<>> THEN index
        ELSE BuildLoop(Drop(rest, Len(line)), Tell(pos, line),
                       IndexStep(index, Prefix(line), pos))

\* f_idx.write(f"{date} {offset}\n") for every item
RECURSIVE WriteIndex(_)
WriteIndex(index) ==
    IF index = <<>> THEN <<>>
    ELSE Head(index)[1] \o <<SP>> \o Dec(Head(index)[2]) \o <<NL>>
         \o WriteIndex(Tail(index))

\* open(INDEX_FILE, "a"): earlier content kept
IndexOpenA(old) == old.data

\* open(INDEX_FILE, "w"): earlier content discarded
IndexOpenW(old) == <<>>

\* build_index(log_file): the error raised and the index file left on disk
BuildIndex(logf, idxf) ==
    IF ~logf.exists
    THEN [err |-> "FileNotFoundError", indexFile |-> idxf]
    ELSE [err |-> "none",
          indexFile |->
              File(IndexOpenW(idxf) \o WriteIndex(BuildLoop(logf.data, 0, <<>>)))]

\* ------------------------------------------------------------------------
\* load_index
\* ------------------------------------------------------------------------
RECURSIVE LoadLoop(_, _)
LoadLoop(lines, index) ==
    IF lines = <<>> THEN [err |-> "none", none |-> FALSE, index |-> index]
    ELSE LET toks == Split(Strip(Head(lines)))
         IN  IF Len(toks) # 2
             THEN [err |-> "ValueError", none |-> FALSE, index |-> <<>>]
             ELSE LET n == ParseInt(toks[2])
                  IN  IF ~n.ok
                      THEN [err |-> "ValueError", none |-> FALSE, index |-> <<>>]
                      ELSE LoadLoop(Tail(lines), DictSet(index, toks[1], n.val))

\* load_index(): None when the index file does not exist
LoadIndex(idxf) ==
    IF ~idxf.exists THEN [err |-> "none", none |-> TRUE, index |-> <<>>]
    ELSE LoadLoop(Lines(idxf.data), <<>>)

\* ------------------------------------------------------------------------
\* extract_logs
\* ------------------------------------------------------------------------
\* f_in.seek(offset) on text that fails when offset is past the end
RECURSIVE SeekReadStrict(_, _)
SeekReadStrict(s, offset) ==
    IF s = <<>> THEN [err |-> "OSError", rest |-> <<>>]
    ELSE IF offset = 0 THEN [err |-> "none", rest |-> s]
    ELSE IF offset < Width(Head(s))
    THEN [err |-> "UnicodeDecodeError", rest |-> <<>>]
    ELSE SeekReadStrict(Tail(s), offset - Width(Head(s)))

\* f_in.seek(offset) and the text the following reads decode: s is the text
\* from the current byte on, offset the bytes still to skip.  Nothing is read
\* past the end of the file; decoding fails inside a multi-byte character
RECURSIVE SeekRead(_, _)
SeekRead(s, offset) ==
    IF s = <<>> THEN [err |-> "none", rest |-> <<>>]
    ELSE IF offset = 0 THEN [err |-> "none", rest |-> s]
    ELSE IF offset < Width(Head(s))
    THEN [err |-> "UnicodeDecodeError", rest |-> <<>>]
    ELSE SeekRead(Tail(s), offset - Width(Head(s)))

\* the indexed loop without its break
RECURSIVE IndexedScanNoBreak(_, _)
IndexedScanNoBreak(lines, date) ==
    IF lines = <<>> THEN <<>>
    ELSE IF ~StartsWith(Head(lines), date)
         THEN IndexedScanNoBreak(Tail(lines), date)
         ELSE Head(lines) \o IndexedScanNoBreak(Tail(lines), date)

\* for line in f_in: if not line.startswith(date): break; f_out.write(line)
RECURSIVE IndexedScan(_, _)
IndexedScan(lines, date) ==
    IF lines = <<>> THEN <<>>
    ELSE IF ~StartsWith(Head(lines), date) THEN <<>>
         ELSE Head(lines) \o IndexedScan(Tail(lines), date)

\* the streaming loop stopping at the first line that does not match
RECURSIVE StreamScanBreak(_, _)
StreamScanBreak(lines, date) ==
    IF lines = <<>> THEN <<>>
    ELSE IF StartsWith(Head(lines), date)
         THEN Head(lines) \o StreamScanBreak(Tail(lines), date)
         ELSE <<>>

\* for line in f_in: if line.startswith(date): f_out.write(line)
RECURSIVE StreamScan(_, _)
StreamScan(lines, date) ==
    IF lines = <<>> THEN <<>>
    ELSE IF StartsWith(Head(lines), date)
         THEN Head(lines) \o StreamScan(Tail(lines), date)
         ELSE StreamScan(Tail(lines), date)

\* open(output_file, "a"): earlier content kept
OutputOpenA(old) == old.data

\* open(output_file, "w"): earlier content discarded
OutputOpenW(old) == <<>>

\* if index and date in index
UseIndex(loaded, date) ==
    /\ ~loaded.none
    /\ loaded.index # <<>>
    /\ HasKey(loaded.index, date)

\* extract_logs(log_file, date): the error raised, the branch taken, the
\* last message printed, and what is left of the output directory and of
\* output_<date>.txt (old is that file before the call)
ExtractLogs(logf, idxf, dirExists, old, date) ==
    LET loaded == LoadIndex(idxf)
    IN  IF loaded.err # "none"
        THEN [err |-> loaded.err, path |-> "none", msg |-> "none",
              outDir |-> TRUE, out |-> old]
        ELSE IF UseIndex(loaded, date)
        THEN IF ~logf.exists
             THEN [err |-> "FileNotFoundError", path |-> "index", msg |-> "none",
                   outDir |-> TRUE, out |-> old]
             ELSE LET sk == SeekRead(logf.data, Lookup(loaded.index, date))
                  IN  IF sk.err # "none"
                      THEN [err |-> sk.err, path |-> "index", msg |-> "none",
                            outDir |-> TRUE, out |-> File(OutputOpenW(old))]
                      ELSE [err |-> "none", path |-> "index", msg |-> "using_index",
                            outDir |-> TRUE,
                            out |-> File(OutputOpenW(old)
                                         \o IndexedScan(Lines(sk.rest), date))]
        ELSE IF ~logf.exists
             THEN [err |-> "FileNotFoundError", path |-> "stream",
                   msg |-> "index_not_found", outDir |-> TRUE, out |-> old]
             ELSE [err |-> "none", path |-> "stream", msg |-> "using_streaming",
                   outDir |-> TRUE,
                   out |-> File(OutputOpenW(old)
                                \o StreamScan(Lines(logf.data), date))]

\* ------------------------------------------------------------------------
\* Inputs: log lines, date arguments, command lines
\* ------------------------------------------------------------------------
D1 == <<"2","0","2","4","-","0","1","-","0","1">>

D2 == <<"2","0","2","4","-","0","1","-","0","2">>

\* a date argument shorter than ten characters
DShort == <<"2","0","2","4">>

\* "2024-01-01 a\n"
LineA == D1 \o <<SP, "a", NL>>

\* "2024-01-01 b" followed by a two-byte character and "\n"
LineB == D1 \o <<SP, "b", EAcute, NL>>

\* "2024-01-02 c\n"
LineC == D2 \o <<SP, "c", NL>>

\* an empty line
LineEmpty == <<NL>>

Pool == {LineA, LineB, LineC, LineEmpty}

\* "2024 01": whitespace within the first ten characters
TailWS == <<"2","0","2","4",SP,"0","1">>

\* a last line without a newline: none, "2024" or "2024 01"
Tails == {<<>>, DShort, TailWS}

StalePool == {LineA, LineB, LineC}

Dates == {D1, D2, DShort}

Prog == "extract_logs.py"

LogPath == "log.txt"

\* the texts of at most n lines: lines of pool, the last one possibly an
\* unterminated line of tails
Texts(pool, tails, n) ==
    {Concat(ls) : ls \in UNION {[1..k -> pool] : k \in 0..n}}
    \cup {Concat(ls) \o t : ls \in UNION {[1..k -> pool] : k \in 0..(n - 1)},
                            t \in tails}

Argvs ==
    {<<Prog>>, <<Prog, "--foo">>,
     <<Prog, "--build", LogPath>>, <<Prog, "--extract", LogPath>>,
     <<Prog, "--foo", LogPath>>}
    \cup {<<Prog, "--extract", LogPath, d>> : d \in Dates}

\* the well-formed command lines
RunArgvs ==
    {<<Prog, "--build", LogPath>>}
    \cup {<<Prog, "--extract", LogPath, d>> : d \in {D1, D2}}

\* ------------------------------------------------------------------------
\* State
\* ------------------------------------------------------------------------
VARIABLES
    log,        \* the log file
    indexFile,  \* log_index.txt
    outDir,     \* whether output/ exists
    outFiles,   \* output/output_<date>.txt for every date
    argv,       \* sys.argv of the last run, <<>> before the first
    called,     \* the function the last run called
    err,        \* the exception the last run ended with
    path,       \* the branch of extract_logs the last run took
    msg,        \* the last message the last run printed
    exitCode,   \* the exit status of the last run
    mods        \* number of changes made to the log file

vars == <<log, indexFile, outDir, outFiles, argv, called, err, path, msg,
          exitCode, mods>>

Fresh ==
    /\ indexFile = NoFile
    /\ outDir = FALSE
    /\ outFiles = [d \in Dates |-> NoFile]
    /\ argv = <<>>
    /\ called = "none"
    /\ err = "none"
    /\ path = "none"
    /\ msg = "none"
    /\ exitCode = 0
    /\ mods = 0

Init ==
    /\ log \in {NoFile} \cup {File(t) : t \in Texts(Pool, Tails, MaxLines)}
    /\ Fresh

InitStale ==
    /\ log \in {File(t) : t \in Texts(StalePool, {<<>>}, MaxStaleLines)}
    /\ Fresh

\* ------------------------------------------------------------------------
\* __main__
\* ------------------------------------------------------------------------
Main(a) ==
    /\ argv' = a
    /\ UNCHANGED <<log, mods>>
    /\ IF Len(a) < 3
       THEN /\ msg' = "usage"
            /\ exitCode' = 1
            /\ called' = "none"
            /\ err' = "none"
            /\ path' = "none"
            /\ UNCHANGED <<indexFile, outDir, outFiles>>
       ELSE IF a[2] = "--build"
       THEN LET r == BuildIndex(log, indexFile)
            IN  /\ called' = "build_index"
                /\ err' = r.err
                /\ indexFile' = r.indexFile
                /\ msg' = IF r.err = "none" THEN "index_built" ELSE "none"
                /\ exitCode' = IF r.err = "none" THEN 0 ELSE 1
                /\ path' = "none"
                /\ UNCHANGED <<outDir, outFiles>>
       ELSE IF a[2] = "--extract"
       THEN IF Len(a) < 4
            THEN /\ msg' = "missing_date"
                 /\ exitCode' = 1
                 /\ called' = "none"
                 /\ err' = "none"
                 /\ path' = "none"
                 /\ UNCHANGED <<indexFile, outDir, outFiles>>
            ELSE LET r == ExtractLogs(log, indexFile, outDir, outFiles[a[4]], a[4])
                 IN  /\ called' = "extract_logs"
                     /\ err' = r.err
                     /\ path' = r.path
                     /\ msg' = r.msg
                     /\ exitCode' = IF r.err = "none" THEN 0 ELSE 1
                     /\ outDir' = r.outDir
                     /\ outFiles' = [outFiles EXCEPT ![a[4]] = r.out]
                     /\ UNCHANGED indexFile
       ELSE /\ msg' = "invalid_command"
            /\ exitCode' = 0
            /\ called' = "none"
            /\ err' = "none"
            /\ path' = "none"
            /\ UNCHANGED <<indexFile, outDir, outFiles>>

\* ------------------------------------------------------------------------
\* The environment: the index file is deleted, the log file is changed
\* ------------------------------------------------------------------------
Idle ==
    /\ argv' = <<>>
    /\ called' = "none"
    /\ err' = "none"
    /\ path' = "none"
    /\ msg' = "none"
    /\ exitCode' = 0

DeleteIndex ==
    /\ indexFile.exists
    /\ indexFile' = NoFile
    /\ Idle
    /\ UNCHANGED <<log, outDir, outFiles, mods>>

InsertAt(ls, i, l) == SubSeq(ls, 1, i - 1) \o <<l>> \o SubSeq(ls, i, Len(ls))

RemoveAt(ls, i) == SubSeq(ls, 1, i - 1) \o SubSeq(ls, i + 1, Len(ls))

\* a line is inserted before line i (appended when i is past the last line)
InsertLine ==
    /\ log.exists
    /\ mods < MaxMods
    /\ \E l \in StalePool, i \in 1..(Len(Lines(log.data)) + 1) :
          log' = File(Concat(InsertAt(Lines(log.data), i, l)))
    /\ mods' = mods + 1
    /\ Idle
    /\ UNCHANGED <<indexFile, outDir, outFiles>>

\* line i is deleted
DeleteLine ==
    /\ log.exists
    /\ mods < MaxMods
    /\ \E i \in 1..Len(Lines(log.data)) :
          log' = File(Concat(RemoveAt(Lines(log.data), i)))
    /\ mods' = mods + 1
    /\ Idle
    /\ UNCHANGED <<indexFile, outDir, outFiles>>

Next ==
    \/ \E a \in Argvs : Main(a)
    \/ DeleteIndex

Spec == Init /\ [][Next]_vars

NextStale ==
    \/ \E a \in RunArgvs : Main(a)
    \/ InsertLine
    \/ DeleteLine

SpecStale == InitStale /\ [][NextStale]_vars

\* ------------------------------------------------------------------------
\* Vocabulary of the properties
\* ------------------------------------------------------------------------
LogLines == Lines(log.data)

\* the date argument and the output file of the last run of extract_logs
Date == argv[4]

Out == outFiles[argv[4]]

ExtractDone(p) == called = "extract_logs" /\ err = "none" /\ path = p

BuildDone == called = "build_index" /\ err = "none"

\* the lines at the positions ps of ls, in file order, as one text
RECURSIVE Pick(_, _, _)
Pick(ls, ps, i) ==
    IF i > Len(ls) THEN <<>>
    ELSE (IF i \in ps THEN ls[i] ELSE <<>>) \o Pick(ls, ps, i + 1)

\* positions of the lines whose first ten characters are d
Carrying(ls, d) == {i \in 1..Len(ls) : Take(ls[i], PrefixLen) = d}

\* positions of the lines whose first Len(d) characters are d
Beginning(ls, d) == {i \in 1..Len(ls) : Take(ls[i], Len(d)) = d}

\* the lines of every date prefix form one block
Contiguous(ls) ==
    \A i, j, k \in 1..Len(ls) :
        (i < j /\ j < k /\ Take(ls[i], PrefixLen) = Take(ls[k], PrefixLen))
            => Take(ls[j], PrefixLen) = Take(ls[i], PrefixLen)

\* first positions of the blocks of d
BlockStarts(ls, d) ==
    {i \in Carrying(ls, d) : i = 1 \/ (i - 1) \notin Carrying(ls, d)}

TwoBlocks(ls, d) == Cardinality(BlockStarts(ls, d)) = 2

SecondStart(ls, d) ==
    CHOOSE i \in BlockStarts(ls, d) : \A j \in BlockStarts(ls, d) : j <= i

FirstBlock(ls, d) == {i \in Carrying(ls, d) : i < SecondStart(ls, d)}

SecondBlock(ls, d) == {i \in Carrying(ls, d) : i >= SecondStart(ls, d)}

\* the index file is the one a build on the present log file writes
IndexIsFresh ==
    /\ log.exists
    /\ indexFile = File(WriteIndex(BuildLoop(log.data, 0, <<>>)))

BuiltKey(d) == log.exists /\ HasKey(BuildLoop(log.data, 0, <<>>), d)

\* ------------------------------------------------------------------------
\* C1
\* ------------------------------------------------------------------------
\* C1 as stated: after an extraction through the fallback scan, the output
\* file holds exactly the log lines whose first ten characters equal the date
\* argument, whatever the length of the argument.
C1_AsStated ==
    ExtractDone("stream") =>
        Out = File(Pick(LogLines, Carrying(LogLines, Date), 1))

\* C1 amended: after an extraction through the fallback scan, the output file
\* holds exactly the log lines that begin with the date argument, each once
\* and in file order; for a date argument of ten characters these are the
\* lines whose first ten characters equal the date.
C1_FallbackComplete ==
    ExtractDone("stream") =>
        /\ Out = File(Pick(LogLines, Beginning(LogLines, Date), 1))
        /\ Len(Date) = PrefixLen =>
               Out = File(Pick(LogLines, Carrying(LogLines, Date), 1))

C1_Witness ==
    /\ ExtractDone("stream")
    /\ Len(Date) = PrefixLen
    /\ TwoBlocks(LogLines, Date)
    /\ Out.data # <<>>

\* ------------------------------------------------------------------------
\* C2
\* ------------------------------------------------------------------------
\* C2 as stated: on a log whose dates are contiguous, with the index built
\* from that log, an extraction through the index of any key of the index
\* writes what the fallback scan writes for that date.
C2_AsStated ==
    (/\ ExtractDone("index")
     /\ IndexIsFresh
     /\ Contiguous(LogLines)
     /\ BuiltKey(Date))
        => Out = File(StreamScan(LogLines, Date))

\* C2 amended: on a log whose dates are contiguous, with the index built
\* from that log, an extraction through the index of a key of ten characters
\* writes what the fallback scan writes for that date.
C2_IndexedEqualsFallback ==
    (/\ ExtractDone("index")
     /\ IndexIsFresh
     /\ Contiguous(LogLines)
     /\ BuiltKey(Date)
     /\ Len(Date) = PrefixLen)
        => Out = File(StreamScan(LogLines, Date))

C2_Witness ==
    /\ ExtractDone("index")
    /\ IndexIsFresh
    /\ Contiguous(LogLines)
    /\ BuiltKey(Date)
    /\ Len(Date) = PrefixLen
    /\ Lookup(BuildLoop(log.data, 0, <<>>), Date) > 0
    /\ Len(Lines(Out.data)) = 2

\* ------------------------------------------------------------------------
\* C3
\* ------------------------------------------------------------------------
\* positions of the lines that are the first to carry their prefix
FirstOccurrences(ls) ==
    {i \in 1..Len(ls) :
        \A j \in 1..(i - 1) : Take(ls[j], PrefixLen) # Take(ls[i], PrefixLen)}

\* byte position of the first byte of line i
LineOffset(ls, i) == ByteLen(Pick(ls, 1..(i - 1), 1))

\* one entry "<prefix> <offset>\n" per first occurrence, in file order
RECURSIVE ExpectedEntries(_, _)
ExpectedEntries(ls, i) ==
    IF i > Len(ls) THEN <<>>
    ELSE (IF i \in FirstOccurrences(ls)
          THEN Take(ls[i], PrefixLen) \o <<SP>> \o Dec(LineOffset(ls, i)) \o <<NL>>
          ELSE <<>>)
         \o ExpectedEntries(ls, i + 1)

\* C3: after build_index completes, the index file holds one entry per
\* distinct ten-character line prefix, with the byte position of the first
\* line carrying it (never that of a later line, even in a separate run),
\* in the order the prefixes were first met.
C3_FirstOccurrenceIndex ==
    BuildDone => indexFile = File(ExpectedEntries(LogLines, 1))

C3_Witness ==
    /\ BuildDone
    /\ \E d \in {Take(LogLines[i], PrefixLen) : i \in 1..Len(LogLines)} :
           TwoBlocks(LogLines, d)
    /\ Cardinality(FirstOccurrences(LogLines)) >= 2
    /\ indexFile.data # <<>>

\* ------------------------------------------------------------------------
\* C4
\* ------------------------------------------------------------------------
\* C4: when the date appears in two separated blocks of the log and the index
\* was built from that log, an extraction through the index writes exactly
\* the first block, and an extraction with the index file absent writes both
\* blocks.
C4_ContiguityLimitation ==
    /\ (ExtractDone("index") /\ IndexIsFresh /\ TwoBlocks(LogLines, Date))
           => Out = File(Pick(LogLines, FirstBlock(LogLines, Date), 1))
    /\ (ExtractDone("stream") /\ ~indexFile.exists /\ TwoBlocks(LogLines, Date))
           => Out = File(Pick(LogLines, FirstBlock(LogLines, Date), 1)
                         \o Pick(LogLines, SecondBlock(LogLines, Date), 1))

C4_Witness ==
    /\ ExtractDone("index")
    /\ IndexIsFresh
    /\ TwoBlocks(LogLines, Date)
    /\ Out.data # <<>>
    /\ Out.data # StreamScan(LogLines, Date)

\* ------------------------------------------------------------------------
\* C5
\* ------------------------------------------------------------------------
\* C5: a build_index run that directly follows a completed build_index run on
\* the same log file leaves the index file as the first run left it.
C5_BuildIdempotent ==
    [][(BuildDone /\ called' = "build_index" /\ err' = "none" /\ log' = log)
          => indexFile' = indexFile]_vars

\* a build has overwritten the index of an earlier build: an output file
\* holds what only an extraction through the index writes
C5_Witness ==
    /\ BuildDone
    /\ indexFile.data # <<>>
    /\ \E d \in Dates :
          /\ outFiles[d].exists
          /\ outFiles[d].data # <<>>
          /\ outFiles[d].data # StreamScan(LogLines, d)

\* ------------------------------------------------------------------------
\* C6
\* ------------------------------------------------------------------------
\* --build <log_file> or --extract <log_file> <date>
WellFormed(a) ==
    \/ Len(a) >= 3 /\ a[2] = "--build"
    \/ Len(a) >= 4 /\ a[2] = "--extract"

\* C6: every run whose command line is not a well-formed --build or
\* --extract prints a usage or error message, calls neither build_index nor
\* extract_logs, and exits with status 1.
C6_InvalidInvocationExitsOne ==
    (argv # <<>> /\ ~WellFormed(argv)) =>
        /\ msg \in {"usage", "missing_date", "invalid_command"}
        /\ called = "none"
        /\ exitCode = 1

\* ------------------------------------------------------------------------
\* C7
\* ------------------------------------------------------------------------
\* the lines of a occur among the lines of b, in order, each used once
RECURSIVE IsSubSeq(_, _)
IsSubSeq(a, b) ==
    IF a = <<>> THEN TRUE
    ELSE IF b = <<>> THEN FALSE
    ELSE IF Head(a) = Head(b) THEN IsSubSeq(Tail(a), Tail(b))
    ELSE IsSubSeq(a, Tail(b))

\* the log lines that begin with d, in file order
MatchingLines(ls, d) ==
    SelectSeq(ls, LAMBDA l : Take(l, Len(d)) = d)

C8_FailureLeavesStateUnchanged ==
    [][(called' # "none" /\ err' # "none")
          => /\ indexFile' = indexFile
             /\ outDir' = outDir
             /\ outFiles' = outFiles]_vars

\* ------------------------------------------------------------------------
\* C9
\* ------------------------------------------------------------------------
\* the index extract_logs loads, and the offset it holds for the date
Loaded == LoadIndex(indexFile)

StaleLookup ==
    /\ called = "extract_logs"
    /\ mods > 0
    /\ log.exists
    /\ indexFile.exists
    /\ Loaded.err = "none"
    /\ HasKey(Loaded.index, Date)

\* the byte offset falls inside a multi-byte character of text s
InsideCharacter(s, offset) ==
    /\ offset < ByteLen(s)
    /\ \A k \in 0..Len(s) : ByteLen(SubSeq(s, 1, k)) # offset

\* the byte offset is past the end of the log, or is the first byte of a
\* line that does not begin with d
StartsNoLineOfDate(ls, offset, d) ==
    \/ offset >= ByteLen(Concat(ls))
    \/ \E i \in 1..Len(ls) :
          /\ ByteLen(Concat(SubSeq(ls, 1, i - 1))) = offset
          /\ Take(ls[i], Len(d)) # d

\* C9 as stated: after the log file was changed without a rebuild, an
\* extraction of a date that is a key of the old index goes through the index
\* and raises no error.
C9_AsStated ==
    StaleLookup => (path = "index" /\ err = "none")

\* C9 amended: after the log file was changed without a rebuild, an
\* extraction of a date that is a key of the old index goes through the index
\* with the old offset and without any check of staleness; it raises no error
\* unless the old offset falls inside a multi-byte character of the changed
\* log, in which case it ends with UnicodeDecodeError and leaves the output
\* file empty; when it raises no error and the old offset is past the end of
\* the log or starts a line of another date, the output file is empty.
C9_StaleIndexUsed ==
    StaleLookup =>
        /\ path = "index"
        /\ IF InsideCharacter(log.data, Lookup(Loaded.index, Date))
           THEN err = "UnicodeDecodeError" /\ Out = File(<<>>)
           ELSE /\ err = "none"
                /\ StartsNoLineOfDate(LogLines, Lookup(Loaded.index, Date), Date)
                       => Out = File(<<>>)

\* a stale extraction that completed with an output other than the lines of
\* the present log that carry the date
C9_Witness ==
    /\ StaleLookup
    /\ ~IndexIsFresh
    /\ err = "none"
    /\ path = "index"
    /\ Carrying(LogLines, Date) # {}
    /\ Out.data # Pick(LogLines, Carrying(LogLines, Date), 1)

\* ------------------------------------------------------------------------
\* C10
\* ------------------------------------------------------------------------
\* C10: the index file build_index writes has one line of exactly two
\* whitespace-separated tokens per key, and load_index reads it without
\* error into the mapping build_index computed.
C10_IndexFileRoundTrip ==
    BuildDone =>
        LET built == BuildLoop(log.data, 0, <<>>)
        IN  /\ Len(Lines(indexFile.data)) = Len(built)
            /\ \A i \in 1..Len(Lines(indexFile.data)) :
                   Len(Split(Strip(Lines(indexFile.data)[i]))) = 2
            /\ Loaded.err = "none"
            /\ Loaded.index = built

====
